---- MODULE Spec2Model ----
(***************************************************************************)
(* Model of website/build.ts, the static site generator of the x402        *)
(* facilitators directory: the catalog aggregation, the card renderer, the *)
(* template compositor and the build() driver with its file operations.    *)
(*                                                                         *)
(* Text is a sequence of tokens (strings).  Static markup is one token per *)
(* chunk; the characters that String.prototype.replace interprets in a     *)
(* replacement string ("$", "&", "`", "'") are tokens of their own, so the *)
(* substitution is computed the way the engine computes it.                *)
(***************************************************************************)
EXTENDS Integers, Sequences, FiniteSets, TLC

VARIABLES
    allFacilitators,  \* the imported catalog array (build.ts:4), sorted in place
    catalog0,         \* the catalog as it was constructed, before any call
    templateFile,     \* <<>> when template.html is missing, else <<text>>
    tz,               \* the process's time zone, minutes east of UTC
    assets,           \* icon files present in ASSETS_DIR
    cnamePresent,     \* whether the CNAME file exists
    dist,             \* files written into OUTPUT_DIR by this run
    indexHtml,        \* <<>> or <<text written to index.html>>
    pc,               \* position of build()
    iconIdx,          \* index of the icon loop of build()
    html,             \* build()'s local html: <<>> or <<text>>
    log,              \* console messages, in order
    ioLog,            \* file operations attempted, in order
    exitCode,         \* -1 while running, else the process's exit status
    outputs,          \* results of successive generateHTML() calls
    facilitator,      \* the record handed to generateCard (card renderer runs)
    card              \* <<>> or <<the fragment generateCard returned>>

vars == <<allFacilitators, catalog0, templateFile, tz, assets, cnamePresent,
          dist, indexHtml, pc, iconIdx, html, log, ioLog, exitCode, outputs,
          facilitator, card>>

----------------------------------------------------------------------------
(* Bounds of the model *)

MaxFacilitators == 3

MaxAddrs == 3

MaxRuns == 2

MaxOccurrences == 2

----------------------------------------------------------------------------
(* Domain model *)

Network == {"base", "polygon", "solana"}

\* accessType is optional on a record; Undefined stands for the absent key
Undefined == "undefined"

AccessTypes == {"open", "gated", "gated_paid", Undefined}

\* new Date('YYYY-MM-DD') of a catalog entry: the calendar date, read as UTC
\* midnight
Date(y, m, d) == [y |-> y, m |-> m, d |-> d]

\* Days since 1970-01-01 of a proleptic Gregorian date
DaysFromCivil(y, m, d) ==
    LET yy  == IF m <= 2 THEN y - 1 ELSE y
        era == yy \div 400
        yoe == yy - era * 400
        mp  == IF m > 2 THEN m - 3 ELSE m + 9
        doy == (153 * mp + 2) \div 5 + d - 1
        doe == yoe * 365 + yoe \div 4 - yoe \div 100 + doy
    IN  era * 146097 + doe - 719468

\* The proleptic Gregorian date of a day number
CivilFromDays(z) ==
    LET zz  == z + 719468
        era == zz \div 146097
        doe == zz - era * 146097
        yoe == (doe - doe \div 1460 + doe \div 36524 - doe \div 146096) \div 365
        doy == doe - (365 * yoe + yoe \div 4 - yoe \div 100)
        mp  == (5 * doy + 2) \div 153
        d   == doy - (153 * mp + 2) \div 5 + 1
        m   == IF mp < 10 THEN mp + 3 ELSE mp - 9
        y   == yoe + era * 400 + (IF m <= 2 THEN 1 ELSE 0)
    IN  Date(y, m, d)

\* Date.prototype.getTime, in minutes rather than milliseconds (every instant
\* of the model is a whole minute; TLC's integers are 32 bits wide)
getTime(date) == DaysFromCivil(date.y, date.m, date.d) * 1440

MonthShort ==
    <<"Jan", "Feb", "Mar", "Apr", "May", "Jun",
      "Jul", "Aug", "Sep", "Oct", "Nov", "Dec">>

\* The en-US rendering {year: 'numeric', month: 'short', day: 'numeric'} of a
\* calendar date
FormatCivil(c) ==
    MonthShort[c.m] \o " " \o ToString(c.d) \o ", " \o ToString(c.y)

\* Date.prototype.toLocaleDateString('en-US', ...) of the instant t: no
\* timeZone option is passed, so the calendar date is the one of the process's
\* time zone
toLocaleDateString(t) == FormatCivil(CivilFromDays((t + tz) \div 1440))

\* An ordered mapping Network -> Address[] is a sequence of entries, in
\* insertion order, with distinct networks
ObjectKeys(addresses) == [i \in 1..Len(addresses) |-> addresses[i].network]

ObjectValues(addresses) == [i \in 1..Len(addresses) |-> addresses[i].addrs]

----------------------------------------------------------------------------
(* Text helpers *)

RECURSIVE Flatten(_)
\* Concatenation of a sequence of texts
Flatten(texts) ==
    IF texts = <<>> THEN <<>> ELSE Head(texts) \o Flatten(Tail(texts))

RECURSIVE Join(_, _)
\* Array.prototype.join: the texts with sep between consecutive ones
Join(texts, sep) ==
    IF texts = <<>> THEN <<>>
    ELSE IF Len(texts) = 1 THEN texts[1]
    ELSE texts[1] \o sep \o Join(Tail(texts), sep)

\* First position >= from at which token occurs in text, 0 if none
IndexOf(text, token, from) ==
    LET hits == {i \in from..Len(text) : text[i] = token}
    IN  IF hits = {} THEN 0 ELSE CHOOSE i \in hits : \A j \in hits : i <= j

\* Number of occurrences of token in text
Count(text, token) == Cardinality({i \in 1..Len(text) : text[i] = token})

----------------------------------------------------------------------------
(* Catalog aggregator, per facilitator *)

RECURSIVE SumLengths(_)
\* reduce((sum, addresses) => sum + addresses.length, 0)
SumLengths(values) ==
    IF values = <<>> THEN 0 ELSE Len(Head(values)) + SumLengths(Tail(values))

getTotalAddressesForFacilitator(f) == SumLengths(ObjectValues(f.addresses))

----------------------------------------------------------------------------
(* Link/icon resolver *)

getExplorerUrl(address, network) ==
    CASE network = "base"    -> <<"https://basescan.org/address/", address>>
      [] network = "polygon" -> <<"https://polygonscan.com/address/", address>>
      [] network = "solana"  -> <<"https://explorer.solana.com/address/", address>>

getNetworkIcon(network) ==
    CASE network = "base"    -> "base.webp"
      [] network = "polygon" -> "polygon.webp"
      [] network = "solana"  -> "solana.webp"

ExplorerName(network) ==
    IF network = "base" THEN "BaseScan"
    ELSE IF network = "polygon" THEN "PolygonScan"
    ELSE "Solana Explorer"

----------------------------------------------------------------------------
(* Card renderer *)

LockIcon == "<span class=\"access-icon\">[lock]</span>"

MoneyIcon == "<span class=\"access-icon\">[money]</span>"

AccessIconsOpen == "<div class=\"access-icons\">"

CardOpen == "<div class=\"card\" id=\"card-"

DataAccessAttr == "\" data-access=\""

FirstTransactionLabel == "<span class=\"info-label\">First Transaction</span>"

\* The money icon dropped from gated_paid
getAccessTypeIconsLockOnly(accessType) ==
    IF accessType \in {"gated", "gated_paid"} THEN <<LockIcon>> ELSE <<>>

getAccessTypeIcons(accessType) ==
    IF accessType = "gated_paid" THEN <<LockIcon, MoneyIcon>>
    ELSE IF accessType = "gated" THEN <<LockIcon>>
    ELSE <<>>

\* One row of the address list
AddressItem(network, addr) ==
    <<"<div class=\"address-item\"><span class=\"network-label ", network, "\">",
      network, "</span><div class=\"address-text\">", addr.address,
      "</div><div class=\"explorer-links\"><a href=\"">>
    \o getExplorerUrl(addr.address, network)
    \o <<"\" target=\"_blank\" class=\"explorer-btn\"><img src=\"",
         getNetworkIcon(network), "\" alt=\"", network,
         "\" class=\"explorer-icon\" />View on ", ExplorerName(network),
         "</a></div></div>">>

generateAddressList(f) ==
    Flatten([i \in 1..Len(f.addresses) |->
        Flatten([j \in 1..Len(f.addresses[i].addrs) |->
            AddressItem(f.addresses[i].network, f.addresses[i].addrs[j])])])

RECURSIVE CollectDates(_)
\* The dates of the addresses that carry one, in iteration order
CollectDates(addrs) ==
    IF addrs = <<>> THEN <<>>
    ELSE Head(addrs).dateOfFirstTransaction \o CollectDates(Tail(addrs))

RECURSIVE MathMin(_)
\* Math.min of a non-empty sequence of numbers
MathMin(ns) ==
    IF Len(ns) = 1 THEN ns[1]
    ELSE LET rest == MathMin(Tail(ns))
         IN  IF Head(ns) < rest THEN Head(ns) ELSE rest

\* <<>> for null, else <<the formatted date>>
getFirstTransactionDate(f) ==
    LET dates == CollectDates(Flatten(ObjectValues(f.addresses)))
    IN  IF Len(dates) = 0 THEN <<>>
        ELSE <<toLocaleDateString(
                   MathMin([i \in 1..Len(dates) |-> getTime(dates[i])]))>>

generateCard(f) ==
    LET networks       == ObjectKeys(f.addresses)
        totalAddresses == SumLengths(ObjectValues(f.addresses))
        firstDate      == getFirstTransactionDate(f)
        addressList    == generateAddressList(f)
        accessIcons    == getAccessTypeIcons(f.accessType)
        isFree         == f.fee = 0
        accessType     == IF f.accessType = Undefined THEN "open"
                          ELSE f.accessType
    IN  <<CardOpen, f.id, "\" data-networks=\"">>
        \o Join([i \in 1..Len(networks) |-> <<networks[i]>>], <<",">>)
        \o <<"\" data-fee=\"", IF isFree THEN "free" ELSE "paid",
             DataAccessAttr, accessType,
             "\"><div class=\"card-accent\" style=\"background: ",
             f.metadata.color, ";\"></div><div class=\"card-header\"><img src=\"",
             f.metadata.image, "\" alt=\"", f.metadata.name,
             " logo\" class=\"card-logo\" onerror=\"this.style.display='none'\" />",
             "<div class=\"card-title\">", f.metadata.name,
             "</div><div class=\"card-id\">", f.id,
             "</div></div><div class=\"main-address-label\">Facilitator API URL">>
        \o (IF accessIcons # <<>>
            THEN <<AccessIconsOpen>> \o accessIcons \o <<"</div>">>
            ELSE <<>>)
        \o (IF f.fee > 0
            THEN <<"<span class=\"fee-display\">", ToString(f.fee), "% Fee</span>">>
            ELSE <<"<span class=\"fee-display\">0% Fee</span>">>)
        \o <<"</div><div class=\"main-address-text\">">>
        \o f.facilitatorUrl
        \o <<"</div><button class=\"copy-btn\" onclick=\"copyAddress(", "'">>
        \o f.facilitatorUrl
        \o <<"'", ", this)\">Copy</button><div class=\"networks\">">>
        \o Flatten([i \in 1..Len(networks) |->
               <<"<span class=\"network-badge network-", networks[i], "\">",
                 networks[i], "</span>">>])
        \o <<"</div><div class=\"info-row addresses-interactive\" onclick=\"toggleAddresses(",
             "'", f.id, "'", ")\"><span class=\"addresses-count\">",
             ToString(totalAddresses), "</span></div><div class=\"address-list\">">>
        \o addressList
        \o <<"</div>">>
        \o (IF firstDate # <<>>
            THEN <<"<div class=\"info-row\">", FirstTransactionLabel,
                   "<span class=\"info-value\">", firstDate[1], "</span></div>">>
            ELSE <<>>)
        \o <<"<a href=\"", f.metadata.docsUrl,
             "\" target=\"_blank\" class=\"card-link\">View Documentation</a></div>">>

----------------------------------------------------------------------------
(* Catalog aggregator: ordering and totals *)

\* The comparator handed to sort: negative keeps a before b
compareFn(a, b) ==
    LET aTotal == getTotalAddressesForFacilitator(a)
        bTotal == getTotalAddressesForFacilitator(b)
    IN  bTotal - aTotal

RECURSIVE InsertSortedBeforeTies(_, _)
\* x entered in front of the elements it ties with
InsertSortedBeforeTies(sorted, x) ==
    IF sorted = <<>> THEN <<x>>
    ELSE IF compareFn(Head(sorted), x) < 0
         THEN <<Head(sorted)>> \o InsertSortedBeforeTies(Tail(sorted), x)
         ELSE <<x>> \o sorted

RECURSIVE InsertSorted(_, _)
\* x entered behind every element the comparator does not put after it
InsertSorted(sorted, x) ==
    IF sorted = <<>> THEN <<x>>
    ELSE IF compareFn(Head(sorted), x) <= 0
         THEN <<Head(sorted)>> \o InsertSorted(Tail(sorted), x)
         ELSE <<x>> \o sorted

RECURSIVE SortPrefix(_, _)
SortPrefix(fs, n) ==
    IF n = 0 THEN <<>> ELSE InsertSorted(SortPrefix(fs, n - 1), fs[n])

RECURSIVE SortPrefixBeforeTies(_, _)
SortPrefixBeforeTies(fs, n) ==
    IF n = 0 THEN <<>>
    ELSE InsertSortedBeforeTies(SortPrefixBeforeTies(fs, n - 1), fs[n])

\* A sort that puts a later equal element first
SortUnstable(fs) == SortPrefixBeforeTies(fs, Len(fs))

\* Array.prototype.sort(compareFn): stable (ECMAScript 2019), and in place: the
\* caller assigns the result to the array sorted
ArraySort(fs) == SortPrefix(fs, Len(fs))

RECURSIVE AddKeys(_, _)
\* for (const network of Object.keys(...)) networks.add(network)
AddKeys(networks, keys) ==
    IF keys = <<>> THEN networks
    ELSE AddKeys(networks \cup {Head(keys)}, Tail(keys))

RECURSIVE CollectNetworks(_, _)
CollectNetworks(networks, fs) ==
    IF fs = <<>> THEN networks
    ELSE CollectNetworks(AddKeys(networks, ObjectKeys(Head(fs).addresses)),
                         Tail(fs))

RECURSIVE CountKeys(_)
CountKeys(fs) ==
    IF fs = <<>> THEN 0
    ELSE Len(Head(fs).addresses) + CountKeys(Tail(fs))

\* The network keys counted once per facilitator
getTotalNetworksSummed(fs) == CountKeys(fs)

getTotalNetworks(fs) == Cardinality(CollectNetworks({}, fs))

RECURSIVE getTotalAddresses(_)
getTotalAddresses(fs) ==
    IF fs = <<>> THEN 0
    ELSE SumLengths(ObjectValues(Head(fs).addresses))
         + getTotalAddresses(Tail(fs))

----------------------------------------------------------------------------
(* Template compositor *)

PhFacilitators == "{{TOTAL_FACILITATORS}}"

PhNetworks == "{{TOTAL_NETWORKS}}"

PhAddresses == "{{TOTAL_ADDRESSES}}"

PhCards == "{{FACILITATOR_CARDS}}"

Placeholders == <<PhFacilitators, PhNetworks, PhAddresses, PhCards>>

RECURSIVE GetSubstitution(_, _, _, _)
\* The replacement text with its $ patterns expanded, scanning from one "$" to
\* the next: $$ is a dollar sign, $& the matched text, $` the text before the
\* match, $' the text after it; any other $ stands for itself (a string
\* pattern has no captures)
GetSubstitution(matched, before, after, replacement) ==
    LET p == IndexOf(replacement, "$", 1)
    IN  IF p = 0 THEN replacement
        ELSE SubSeq(replacement, 1, p - 1)
             \o (IF p < Len(replacement)
                    /\ replacement[p + 1] \in {"$", "&", "`", "'"}
                 THEN (CASE replacement[p + 1] = "$" -> <<"$">>
                         [] replacement[p + 1] = "&" -> matched
                         [] replacement[p + 1] = "`" -> before
                         [] replacement[p + 1] = "'" -> after)
                      \o GetSubstitution(matched, before, after,
                             SubSeq(replacement, p + 2, Len(replacement)))
                 ELSE <<"$">>
                      \o GetSubstitution(matched, before, after,
                             SubSeq(replacement, p + 1, Len(replacement))))

\* String.prototype.replace(pattern, replacement) with a string pattern: the
\* first occurrence only
replace(text, pattern, replacement) ==
    LET pos == IndexOf(text, pattern, 1)
    IN  IF pos = 0 THEN text
        ELSE LET before == SubSeq(text, 1, pos - 1)
                 after  == SubSeq(text, pos + 1, Len(text))
             IN  before
                 \o GetSubstitution(<<pattern>>, before, after, replacement)
                 \o after

\* facilitatorCards of generateHTML, for the array as sorted
RenderCards(sorted) ==
    Join([i \in 1..Len(sorted) |-> generateCard(sorted[i])], <<"\n">>)

\* The page: the four replace calls, in the order of the code
Compose(template, sorted, facilitatorCards) ==
    replace(
        replace(
            replace(
                replace(template, PhFacilitators, <<ToString(Len(sorted))>>),
                PhNetworks, <<ToString(getTotalNetworks(sorted))>>),
            PhAddresses, <<ToString(getTotalAddresses(sorted))>>),
        PhCards, facilitatorCards)

\* generateHTML(): the array after the call, and what the call returns: <<>>
\* when readFile rejects (the sort has happened by then), else <<html>>
generateHTML(fs, file) ==
    LET sorted           == ArraySort(fs)
        facilitatorCards == RenderCards(sorted)
    IN  [array  |-> sorted,
         result |-> IF file = <<>> THEN <<>>
                    ELSE <<Compose(file[1], sorted, facilitatorCards)>>]

----------------------------------------------------------------------------
(* Inputs: catalogs, templates, the environment *)

\* Minutes east of UTC: New York (EST), UTC, Tokyo
TimeZoneOffsets == {-300, 0, 540}

DateOptions == {<<>>, <<Date(2025, 3, 1)>>, <<Date(2025, 11, 6)>>}

Address(name, date) == [address |-> name, dateOfFirstTransaction |-> date]

PlainUrl == <<"https://facilitator.example/api">>

\* A URL whose query string holds "$&", and one that ends in "$"
DollarUrls ==
    {<<"https://facilitator.example/?a=", "$", "&", "b=1">>,
     <<"https://facilitator.example/price/", "$">>}

MakeFacilitator(id, url, fee, accessType, addresses) ==
    [id             |-> id,
     metadata       |-> [name    |-> "Name of " \o id,
                         image   |-> "https://img.example/" \o id \o ".png",
                         docsUrl |-> "https://docs.example/" \o id,
                         color   |-> "#DC2626"],
     facilitatorUrl |-> url,
     fee            |-> fee,
     accessType     |-> accessType,
     addresses      |-> addresses]

\* Address lists of one facilitator, network by network: the addresses of a
\* network are consecutive
FlatLists ==
    UNION {[1..n -> Network \X DateOptions] : n \in 0..MaxAddrs}

Contiguous(flat) ==
    \A i, j, k \in 1..Len(flat) :
        (i < j /\ j < k /\ flat[i][1] = flat[k][1]) => flat[j][1] = flat[i][1]

RECURSIVE Group(_, _)
\* The ordered mapping of the first n addresses of a flat list
Group(flat, n) ==
    IF n = 0 THEN <<>>
    ELSE LET entries == Group(flat, n - 1)
             addr    == Address("0xaddr" \o ToString(n), flat[n][2])
         IN  IF entries # <<>> /\ entries[Len(entries)].network = flat[n][1]
             THEN [entries EXCEPT ![Len(entries)].addrs = Append(@, addr)]
             ELSE Append(entries, [network |-> flat[n][1], addrs |-> <<addr>>])

AddressMaps == {Group(flat, Len(flat)) : flat \in {fl \in FlatLists : Contiguous(fl)}}

Fees == {0, 2}

\* Records handed to the card renderer
CardFacilitators ==
    {MakeFacilitator("f1", PlainUrl, fee, access, addresses) :
        fee \in Fees, access \in AccessTypes, addresses \in AddressMaps}

\* Address mappings of catalog entries: one address, two addresses on two
\* networks, two addresses on one network
Layouts ==
    {<<[network |-> "base", addrs |-> <<Address("0xa1", <<>>)>>]>>,
     <<[network |-> "base", addrs |-> <<Address("0xb1", <<Date(2025, 11, 6)>>)>>],
       [network |-> "polygon", addrs |-> <<Address("0xb2", <<>>)>>]>>,
     <<[network |-> "solana",
        addrs |-> <<Address("So1", <<Date(2025, 11, 6)>>),
                    Address("So2", <<Date(2025, 3, 1)>>)>>]>>}

\* The catalogs of n records over the given URLs and address mappings; the id
\* of a record is its position in the catalog as constructed
CatalogsOf(n, urls, layouts, access) ==
    {[i \in 1..n |-> MakeFacilitator("f" \o ToString(i), pick[i][1],
                                     IF pick[i][3] = "gated_paid" THEN 2 ELSE 0,
                                     pick[i][3], pick[i][2])] :
        pick \in [1..n -> urls \X layouts \X access]}

Catalogs ==
    UNION {CatalogsOf(n, {PlainUrl}, Layouts, {"open", "gated_paid"}) :
               n \in 0..MaxFacilitators}

DollarCatalogs ==
    UNION {CatalogsOf(n, {PlainUrl} \cup DollarUrls,
                      {l \in Layouts : Len(l) = 1}, {"open"}) :
               n \in 0..MaxFacilitators}

\* The catalogs the build is run on
BuildCatalogs ==
    UNION {CatalogsOf(n, {PlainUrl}, Layouts, {"gated"}) :
               n \in 0..MaxFacilitators}

FullTemplate ==
    <<"<html><b>", PhFacilitators, "</b><b>", PhNetworks, "</b><b>",
      PhAddresses, "</b><main>", PhCards, "</main></html>">>

RECURSIVE Repeat(_, _)
Repeat(token, n) == IF n = 0 THEN <<>> ELSE <<token>> \o Repeat(token, n - 1)

\* A template with k[i] occurrences of the i-th placeholder
MakeTemplate(k) ==
    <<"<html>">>
    \o Flatten([i \in 1..4 |-> Repeat(Placeholders[i], k[i]) \o <<"<hr>">>])
    \o <<"</html>">>

Templates == {MakeTemplate(k) : k \in [1..4 -> 0..MaxOccurrences]}

Icons == <<"base.webp", "polygon.webp", "solana.webp">>

IconSet == {Icons[i] : i \in 1..Len(Icons)}

NoFacilitator == MakeFacilitator("none", PlainUrl, 0, Undefined, <<>>)

----------------------------------------------------------------------------
(* build(): one action per awaited step *)

\* Nothing of the card renderer's or the repeated-call state is in use
BuildFrame == UNCHANGED <<catalog0, templateFile, tz, assets, cnamePresent,
                          outputs, facilitator, card>>

\* console.log, then await mkdir(OUTPUT_DIR, {recursive: true}), then the log
\* line before the icon loop
Mkdir ==
    /\ pc = "start"
    /\ log' = log \o <<"Building x402 Facilitators website...", "Copying assets...">>
    /\ ioLog' = Append(ioLog, "mkdir dist")
    /\ iconIdx' = 1
    /\ pc' = "icons"
    /\ UNCHANGED <<allFacilitators, dist, indexHtml, html, exitCode>>
    /\ BuildFrame

\* The icon loop with a missing icon skipped rather than fatal
CopyIconSkipMissing ==
    /\ pc = "icons"
    /\ ioLog' = Append(ioLog, "copyFile " \o Icons[iconIdx])
    /\ dist' = IF Icons[iconIdx] \in assets THEN dist \cup {Icons[iconIdx]}
               ELSE dist
    /\ iconIdx' = iconIdx + 1
    /\ pc' = IF iconIdx = Len(Icons) THEN "cname" ELSE "icons"
    /\ UNCHANGED <<allFacilitators, indexHtml, html, log, exitCode>>
    /\ BuildFrame

\* One iteration of the icon loop: await copyFile, which rejects when the
\* source file does not exist
CopyIcon ==
    /\ pc = "icons"
    /\ ioLog' = Append(ioLog, "copyFile " \o Icons[iconIdx])
    /\ \/ /\ Icons[iconIdx] \in assets
          /\ dist' = dist \cup {Icons[iconIdx]}
          /\ iconIdx' = iconIdx + 1
          /\ pc' = IF iconIdx = Len(Icons) THEN "cname" ELSE "icons"
       \/ /\ Icons[iconIdx] \notin assets
          /\ pc' = "rejected"
          /\ UNCHANGED <<dist, iconIdx>>
    /\ UNCHANGED <<allFacilitators, indexHtml, html, log, exitCode>>
    /\ BuildFrame

\* The CNAME copy outside any try: a missing file rejects the build
CopyCnameRequired ==
    /\ pc = "cname"
    /\ ioLog' = Append(ioLog, "copyFile CNAME")
    /\ \/ /\ cnamePresent
          /\ dist' = dist \cup {"CNAME"}
          /\ log' = Append(log, "Copied CNAME file")
          /\ pc' = "generate"
       \/ /\ ~cnamePresent
          /\ pc' = "rejected"
          /\ UNCHANGED <<dist, log>>
    /\ UNCHANGED <<allFacilitators, indexHtml, html, iconIdx, exitCode>>
    /\ BuildFrame

\* try { await copyFile(CNAME_PATH, ...) } catch { log the skip }
CopyCname ==
    /\ pc = "cname"
    /\ ioLog' = Append(ioLog, "copyFile CNAME")
    /\ \/ /\ cnamePresent
          /\ dist' = dist \cup {"CNAME"}
          /\ log' = Append(log, "Copied CNAME file")
       \/ /\ ~cnamePresent
          /\ log' = Append(log, "No CNAME file found (skipping)")
          /\ UNCHANGED dist
    /\ pc' = "generate"
    /\ UNCHANGED <<allFacilitators, indexHtml, html, iconIdx, exitCode>>
    /\ BuildFrame

\* const html = await generateHTML()
BuildGenerateHTML ==
    /\ pc = "generate"
    /\ LET r == generateHTML(allFacilitators, templateFile)
       IN  /\ allFacilitators' = r.array
           /\ html' = r.result
           /\ pc' = IF r.result = <<>> THEN "rejected" ELSE "write"
    /\ ioLog' = Append(ioLog, "readFile template.html")
    /\ UNCHANGED <<dist, indexHtml, iconIdx, log, exitCode>>
    /\ BuildFrame

\* await writeFile(index.html, html) and the three closing log lines
WriteFile ==
    /\ pc = "write"
    /\ ioLog' = Append(ioLog, "writeFile index.html")
    /\ dist' = dist \cup {"index.html"}
    /\ indexHtml' = html
    /\ log' = log \o <<"Website built successfully!", "Output: dist",
                       "To serve locally: cd dist && npx http-server">>
    /\ pc' = "resolved"
    /\ UNCHANGED <<allFacilitators, html, iconIdx, exitCode>>
    /\ BuildFrame

\* The catch handler without process.exit(1): the process ends with 0
BuildCatchExitZero ==
    /\ pc = "rejected"
    /\ log' = Append(log, "Build failed:")
    /\ exitCode' = 0
    /\ pc' = "exited"
    /\ UNCHANGED <<allFacilitators, dist, indexHtml, html, iconIdx, ioLog>>
    /\ BuildFrame

\* build().catch: the rejection is logged and the process exits with 1
BuildCatch ==
    /\ pc = "rejected"
    /\ log' = Append(log, "Build failed:")
    /\ exitCode' = 1
    /\ pc' = "exited"
    /\ UNCHANGED <<allFacilitators, dist, indexHtml, html, iconIdx, ioLog>>
    /\ BuildFrame

\* The promise resolved and nothing is pending: the process ends with 0
ProcessEnd ==
    /\ pc = "resolved"
    /\ exitCode' = 0
    /\ pc' = "exited"
    /\ UNCHANGED <<allFacilitators, dist, indexHtml, html, iconIdx, log, ioLog>>
    /\ BuildFrame

Idle ==
    /\ dist = {}
    /\ indexHtml = <<>>
    /\ iconIdx = 0
    /\ html = <<>>
    /\ log = <<>>
    /\ ioLog = <<>>
    /\ exitCode = -1
    /\ outputs = <<>>
    /\ card = <<>>

Init ==
    /\ allFacilitators \in BuildCatalogs
    /\ catalog0 = allFacilitators
    /\ templateFile \in {<<>>, <<FullTemplate>>}
    /\ tz \in TimeZoneOffsets
    /\ assets \in SUBSET IconSet
    /\ cnamePresent \in BOOLEAN
    /\ facilitator = NoFacilitator
    /\ pc = "start"
    /\ Idle

Next ==
    \/ Mkdir
    \/ CopyIcon
    \/ CopyCname
    \/ BuildGenerateHTML
    \/ WriteFile
    \/ BuildCatch
    \/ ProcessEnd

Spec == Init /\ [][Next]_vars

----------------------------------------------------------------------------
(* generateHTML() called repeatedly on the same catalog and template *)

CallGenerateHTML ==
    /\ pc = "call"
    /\ Len(outputs) < MaxRuns
    /\ LET r == generateHTML(allFacilitators, templateFile)
       IN  /\ allFacilitators' = r.array
           /\ outputs' = Append(outputs, r.result)
    /\ UNCHANGED <<catalog0, templateFile, tz, assets, cnamePresent, dist,
                   indexHtml, pc, iconIdx, html, log, ioLog, exitCode,
                   facilitator, card>>

InitGen ==
    /\ allFacilitators \in Catalogs
    /\ catalog0 = allFacilitators
    /\ templateFile \in {<<>>, <<FullTemplate>>}
    /\ tz \in TimeZoneOffsets
    /\ assets = IconSet
    /\ cnamePresent = TRUE
    /\ facilitator = NoFacilitator
    /\ pc = "call"
    /\ Idle

SpecGen == InitGen /\ [][CallGenerateHTML]_vars

InitTemplate ==
    /\ allFacilitators \in DollarCatalogs
    /\ catalog0 = allFacilitators
    /\ templateFile \in {<<t>> : t \in Templates}
    /\ tz = 0
    /\ assets = IconSet
    /\ cnamePresent = TRUE
    /\ facilitator = NoFacilitator
    /\ pc = "call"
    /\ Idle

SpecTemplate == InitTemplate /\ [][CallGenerateHTML]_vars

----------------------------------------------------------------------------
(* generateCard() applied to one record *)

RenderCard ==
    /\ pc = "card"
    /\ card = <<>>
    /\ card' = <<generateCard(facilitator)>>
    /\ UNCHANGED <<allFacilitators, catalog0, templateFile, tz, assets,
                   cnamePresent, dist, indexHtml, pc, iconIdx, html, log,
                   ioLog, exitCode, outputs, facilitator>>

InitCard ==
    /\ facilitator \in CardFacilitators
    /\ tz \in TimeZoneOffsets
    /\ allFacilitators = <<>>
    /\ catalog0 = <<>>
    /\ templateFile = <<>>
    /\ assets = IconSet
    /\ cnamePresent = TRUE
    /\ pc = "card"
    /\ Idle

SpecCard == InitCard /\ [][RenderCard]_vars

----------------------------------------------------------------------------
(* Properties of the catalog aggregator and the page (SpecGen) *)

\* The ids of the cards of a page, in the order in which they appear
EmittedIds(text) ==
    LET pos == {i \in 1..Len(text) : text[i] = CardOpen}
    IN  [n \in 1..Cardinality(pos) |->
            text[(CHOOSE i \in pos : Cardinality({j \in pos : j <= i}) = n) + 1]]

\* Position in the catalog as constructed of the record with this id
PositionOf(id) == CHOOSE k \in 1..Len(catalog0) : catalog0[k].id = id

\* addressCountOf, from the catalog as constructed: the number of (network
\* entry, address) places of the record
addressCountOf(id) ==
    LET f == catalog0[PositionOf(id)]
    IN  Cardinality(UNION {{<<j, k>> : k \in 1..Len(f.addresses[j].addrs)} :
                               j \in 1..Len(f.addresses)})

\* ids holds every record of the catalog once, by address count descending,
\* records of equal count in catalog order
StableDescending(ids) ==
    /\ Len(ids) = Len(catalog0)
    /\ \A k \in 1..Len(catalog0) : \E n \in 1..Len(ids) : ids[n] = catalog0[k].id
    /\ \A m, n \in 1..Len(ids) :
           m < n =>
               /\ addressCountOf(ids[m]) >= addressCountOf(ids[n])
               /\ addressCountOf(ids[m]) = addressCountOf(ids[n])
                      => PositionOf(ids[m]) < PositionOf(ids[n])

\* C1: every page generateHTML returns holds the cards of all facilitators by
\* address count descending, and facilitators of equal address count in the
\* order they have in the input catalog
C1_CardsSortedStable ==
    \A r \in 1..Len(outputs) :
        outputs[r] # <<>> => StableDescending(EmittedIds(outputs[r][1]))

\* C1 witness: a page was generated from a catalog of three records that the
\* sort had to reorder and that holds two records of equal address count
C1_Witness ==
    /\ Len(outputs) >= 1
    /\ outputs[1] # <<>>
    /\ Len(catalog0) = 3
    /\ EmittedIds(outputs[1][1]) # [k \in 1..3 |-> catalog0[k].id]
    /\ \E m, n \in 1..3 :
           m < n /\ addressCountOf(catalog0[m].id) = addressCountOf(catalog0[n].id)

\* Totals of the catalog as constructed, counted as sets of places
TotalAddressesOfCatalog ==
    Cardinality(UNION {UNION {{<<i, j, k>> :
                                  k \in 1..Len(catalog0[i].addresses[j].addrs)} :
                              j \in 1..Len(catalog0[i].addresses)} :
                       i \in 1..Len(catalog0)})

NetworksOfCatalog ==
    {n \in Network :
        \E i \in 1..Len(catalog0) :
            \E j \in 1..Len(catalog0[i].addresses) :
                catalog0[i].addresses[j].network = n}

\* C2: the page shows as totalFacilitators the number of records, as
\* totalNetworks the number of distinct networks of the catalog and as
\* totalAddresses the number of addresses of all facilitators and networks
C2_Totals ==
    \A r \in 1..Len(outputs) :
        (outputs[r] # <<>> /\ templateFile = <<FullTemplate>>) =>
            /\ outputs[r][1][2] = ToString(Len(catalog0))
            /\ outputs[r][1][4] = ToString(Cardinality(NetworksOfCatalog))
            /\ outputs[r][1][6] = ToString(TotalAddressesOfCatalog)

\* C2 witness: a page was generated from a catalog in which two facilitators
\* use the same network
C2_Witness ==
    /\ Len(outputs) >= 1
    /\ outputs[1] # <<>>
    /\ templateFile = <<FullTemplate>>
    /\ \E i, j \in 1..Len(catalog0) :
           /\ i < j
           /\ catalog0[i].addresses[1].network = catalog0[j].addresses[1].network
    /\ TotalAddressesOfCatalog > Len(catalog0)

\* C3: the catalog array holds the same records in the same order as before
\* the call
C3_CatalogUnchanged == allFacilitators = catalog0

\* C4: two successive calls of generateHTML on the same catalog and template
\* return the same text, the second starting from the array as the first
\* left it
C4_Idempotent ==
    \A r, q \in 1..Len(outputs) : outputs[r] = outputs[q]

\* C4 witness: two calls returned a page, the first having reordered a
\* catalog that holds records of equal address count
C4_Witness ==
    /\ Len(outputs) >= 2
    /\ outputs[2] # <<>>
    /\ allFacilitators # catalog0
    /\ \E m, n \in 1..Len(catalog0) :
           m < n /\ addressCountOf(catalog0[m].id) = addressCountOf(catalog0[n].id)

----------------------------------------------------------------------------
(* Properties of the template compositor (SpecTemplate) *)

\* What a placeholder stands for: a total as decimal text, or the cards of the
\* sorted catalog joined by newlines
ContentOf(placeholder) ==
    CASE placeholder = PhFacilitators -> <<ToString(Len(catalog0))>>
      [] placeholder = PhNetworks -> <<ToString(Cardinality(NetworksOfCatalog))>>
      [] placeholder = PhAddresses -> <<ToString(TotalAddressesOfCatalog)>>
      [] placeholder = PhCards -> RenderCards(ArraySort(catalog0))

RECURSIVE SubstituteOnce(_, _)
\* The template in one pass: the first occurrence of each placeholder gives
\* way to its content as it is, every other token stays
SubstituteOnce(text, seen) ==
    IF text = <<>> THEN <<>>
    ELSE IF Head(text) \in {PhFacilitators, PhNetworks, PhAddresses, PhCards} \ seen
         THEN ContentOf(Head(text))
              \o SubstituteOnce(Tail(text), seen \cup {Head(text)})
         ELSE <<Head(text)>> \o SubstituteOnce(Tail(text), seen)

\* C5: the page is the template with the first occurrence of each placeholder
\* it holds replaced by the matching total as decimal text, or by the
\* newline-joined cards verbatim, a placeholder that is absent being no error
\* and all other text of the template staying as it is
C5_TemplateComposition ==
    \A r \in 1..Len(outputs) :
        outputs[r] = <<SubstituteOnce(templateFile[1], {})>>

----------------------------------------------------------------------------
(* Properties of build() (Spec) *)

RequiredPresent == assets = IconSet /\ templateFile # <<>>

SuccessLogged == \E i \in 1..Len(log) : log[i] = "Website built successfully!"

\* The files the run has copied when its first missing required asset stops it
CopiedBeforeFailure ==
    IF assets # IconSet
    THEN LET missing == CHOOSE i \in 1..Len(Icons) :
                            /\ Icons[i] \notin assets
                            /\ \A j \in 1..(i - 1) : Icons[j] \in assets
         IN  {Icons[j] : j \in 1..(missing - 1)}
    ELSE IconSet \cup (IF cnamePresent THEN {"CNAME"} ELSE {})

\* C6: with a required asset missing (an icon or the template), no file
\* operation is attempted twice, index.html is never written, the success
\* message is never logged, and the process ends with a non-zero status
C6_MissingRequiredAborts ==
    ~RequiredPresent =>
        /\ \A i, j \in 1..Len(ioLog) : i < j => ioLog[i] # ioLog[j]
        /\ "index.html" \notin dist
        /\ indexHtml = <<>>
        /\ ~SuccessLogged
        /\ exitCode # 0
        /\ pc \notin {"write", "resolved"}
        /\ pc = "exited" => exitCode = 1

\* C6 witness: the process has ended after a build that found the second icon
\* missing
C6_Witness ==
    /\ pc = "exited"
    /\ "polygon.webp" \notin assets
    /\ "base.webp" \in assets
    /\ exitCode = 1

\* C7: with the CNAME file missing and every required asset present, the build
\* is never rejected, logs the skip once the copy was tried, and ends with
\* index.html written, no CNAME in the output directory and exit status 0
C7_MissingCnameSkipped ==
    (~cnamePresent /\ RequiredPresent) =>
        /\ pc # "rejected"
        /\ "CNAME" \notin dist
        /\ pc \in {"generate", "write", "resolved", "exited"} =>
               \E i \in 1..Len(log) : log[i] = "No CNAME file found (skipping)"
        /\ pc = "exited" =>
               /\ exitCode = 0
               /\ "index.html" \in dist
               /\ indexHtml = html
               /\ html # <<>>
               /\ SuccessLogged

\* C7 witness: a build without CNAME file has ended, for a catalog of two or
\* more records
C7_Witness ==
    /\ pc = "exited"
    /\ ~cnamePresent
    /\ RequiredPresent
    /\ Len(catalog0) >= 2
    /\ "index.html" \in dist

\* C8: a run that has ended either succeeded, the output directory holding
\* index.html and all copied assets, or it failed with a non-zero status and
\* wrote no file at all to the output directory
C8_NoPartialOutput ==
    pc = "exited" =>
        \/ /\ exitCode = 0
           /\ "index.html" \in dist
           /\ IconSet \subseteq dist
        \/ /\ exitCode # 0
           /\ dist = {}

\* C8 as amended: a run that has ended either succeeded, the output directory
\* holding index.html, the three icons and the CNAME if there is one, or it
\* failed with status 1 without index.html, the output directory holding the
\* files copied before the step that failed
C8_FailureLeavesCopiedFiles ==
    pc = "exited" =>
        \/ /\ exitCode = 0
           /\ RequiredPresent
           /\ dist = IconSet \cup {"index.html"}
                         \cup (IF cnamePresent THEN {"CNAME"} ELSE {})
           /\ indexHtml # <<>>
        \/ /\ exitCode = 1
           /\ ~RequiredPresent
           /\ "index.html" \notin dist
           /\ indexHtml = <<>>
           /\ dist = CopiedBeforeFailure

\* C8 witness: a run has failed on the missing template after copying the
\* icons and the CNAME
C8_Witness ==
    /\ pc = "exited"
    /\ exitCode = 1
    /\ templateFile = <<>>
    /\ dist = IconSet \cup {"CNAME"}

----------------------------------------------------------------------------
(* Properties of the card renderer (SpecCard) *)

\* The value of the card's data-access attribute
DataAccessOf(text) == text[IndexOf(text, DataAccessAttr, 1) + 1]

\* C9: a card of access type open, or of none, holds no access icon and no
\* access-icons wrapper and has data-access "open"; a gated card holds one lock
\* icon and no money icon; a gated_paid card holds one lock icon and, right
\* after it, one money icon
C9_AccessIcons ==
    card # <<>> =>
        LET text   == card[1]
            locks  == Count(text, LockIcon)
            moneys == Count(text, MoneyIcon)
        IN  /\ facilitator.accessType \in {"open", Undefined} =>
                /\ locks = 0
                /\ moneys = 0
                /\ Count(text, AccessIconsOpen) = 0
                /\ DataAccessOf(text) = "open"
            /\ facilitator.accessType = "gated" =>
                /\ locks = 1
                /\ moneys = 0
            /\ facilitator.accessType = "gated_paid" =>
                /\ locks = 1
                /\ moneys = 1
                /\ IndexOf(text, MoneyIcon, 1) = IndexOf(text, LockIcon, 1) + 1

\* C9 witness: the card of a gated_paid facilitator with addresses was rendered
C9_Witness ==
    /\ card # <<>>
    /\ facilitator.accessType = "gated_paid"
    /\ Count(card[1], AccessIconsOpen) = 1
    /\ Len(facilitator.addresses) >= 1

\* The calendar dates carried by the addresses of the facilitator
DatesOf(f) ==
    {f.addresses[j].addrs[k].dateOfFirstTransaction[1] :
        <<j, k>> \in {p \in (1..Len(f.addresses)) \X (1..MaxAddrs) :
                        /\ p[2] <= Len(f.addresses[p[1]].addrs)
                        /\ f.addresses[p[1]].addrs[p[2]].dateOfFirstTransaction # <<>>}}

\* a is the same calendar date as b or an earlier one
NotAfter(a, b) ==
    \/ a.y < b.y
    \/ a.y = b.y /\ a.m < b.m
    \/ a.y = b.y /\ a.m = b.m /\ a.d <= b.d

\* C10: the card holds the first-transaction block if and only if an address
\* of the facilitator carries a date, and the block shows the earliest of the
\* dates carried (2025-03-01 of 2025-11-06 and 2025-03-01, as Mar 1, 2025)
C10_FirstTransactionDate ==
    card # <<>> =>
        LET text  == card[1]
            dates == DatesOf(facilitator)
            at    == IndexOf(text, FirstTransactionLabel, 1)
        IN  /\ at # 0 <=> dates # {}
            /\ at # 0 =>
                   \E d \in dates :
                       /\ \A e \in dates : NotAfter(d, e)
                       /\ text[at + 2] = FormatCivil(d)

====
